---- MODULE Spec2Model ----
(***************************************************************************)
(* The POST /score_route handler of backend/app.py, as a state machine.    *)
(*                                                                         *)
(* Two requests are served against the one model loaded at start-up; each  *)
(* request runs the handler: read the JSON body, reject it or enter the    *)
(* loop over its routes, score one route per iteration inside try/except,  *)
(* and answer with the list of scores.                                     *)
(*                                                                         *)
(* Numbers: the model's predictions are integers; the percentile, the      *)
(* penalised values and the mean are computed exactly, as fractions in     *)
(* lowest terms (1.6 is 8/5).  Rounding of IEEE doubles is not modelled.   *)
(***************************************************************************)
EXTENDS Integers, Sequences, FiniteSets, TLC

\* ---------------------------------------------------------------- bounds
MaxLen == 5      \* longest well-formed route of a single-route request
MaxBatch == 2    \* most routes in a batch when two requests are compared

\* ------------------------------------------------------ program constants
PERCENTILE == 85     \* np.percentile(preds, 85)
FactorNum == 8       \* preds * 1.6, as the fraction 8/5
FactorDen == 5

Reqs == {1, 2}

\* ------------------------------------------------------------- fractions
RECURSIVE GCD(_, _)
GCD(a, b) == IF b = 0 THEN a ELSE GCD(b, a % b)

\* A float64 holding the exact value n/d, d > 0, in lowest terms.
Rat(n, d) == LET g == GCD(n, d) IN [num |-> n \div g, den |-> d \div g]

RatAdd(a, b) == Rat(a.num * b.den + b.num * a.den, a.den * b.den)

\* --------------------------------------------------- JSON values of a body
\* A coordinate as it arrives in the JSON body.
Num(v) == [t |-> "num", v |-> v]        \* the number v
NumStr(v) == [t |-> "str", v |-> v]     \* a string that spells the number v
BadStr == [t |-> "bad", v |-> 0]        \* a string that spells no number
Null == [t |-> "null", v |-> 0]         \* null
Bool(v) == [t |-> "bool", v |-> v]      \* false (0) or true (1)

\* float64 values of an array: a number or NaN.
Fl(v) == [nan |-> FALSE, v |-> v]
NaN == [nan |-> TRUE, v |-> 0]

\* What np.array(..., dtype=float) makes of one element: float("12.9") parses,
\* float("abc") raises ValueError, None becomes nan, True becomes 1.0.
AsFloat(x) ==
    CASE x.t = "num" -> [ok |-> TRUE, f |-> Fl(x.v)]
      [] x.t = "str" -> [ok |-> TRUE, f |-> Fl(x.v)]
      [] x.t = "bool" -> [ok |-> TRUE, f |-> Fl(x.v)]
      [] x.t = "null" -> [ok |-> TRUE, f |-> NaN]
      [] OTHER -> [ok |-> FALSE, f |-> NaN]

\* arr = np.array(route, dtype=float) for a route that is a list of lists.
\* Rows of different lengths (an inhomogeneous shape) and an element that does
\* not convert raise; [] gives shape (0,), n rows of c elements shape (n, c).
NpArray(route) ==
    IF \/ \E i \in 1..Len(route) : Len(route[i]) # Len(route[1])
       \/ \E i \in 1..Len(route) : \E j \in 1..Len(route[i]) : ~AsFloat(route[i][j]).ok
    THEN [ok |-> FALSE, ndim |-> 0, cols |-> 0, rows |-> <<>>]
    ELSE IF Len(route) = 0
    THEN [ok |-> TRUE, ndim |-> 1, cols |-> 0, rows |-> <<>>]
    ELSE [ok |-> TRUE, ndim |-> 2, cols |-> Len(route[1]),
          rows |-> [i \in 1..Len(route) |->
                      [j \in 1..Len(route[i]) |-> AsFloat(route[i][j]).f]]]

\* if arr.ndim != 2 or arr.shape[1] != 2: raise ValueError(...)
ShapeOk(arr) == arr.ndim = 2 /\ arr.cols = 2

\* ------------------------------------------------------------ the model
\* The points the fitted model is asked about, and what it answers.
Points == {<<Fl(0), Fl(1)>>, <<Fl(1), Fl(0)>>}
Intensities == {1, 10}
Outcomes == {[ok |-> TRUE, v |-> v] : v \in Intensities} \cup {[ok |-> FALSE, v |-> 0]}
Models == [Points -> Outcomes]

\* preds = model.predict(arr): one intensity per row, each depending on that
\* row alone.  The pipeline (StandardScaler, KNeighborsRegressor) refuses an
\* input with NaN; a model that fails on a point fails the whole call.
ModelPredict(m, rows) ==
    IF \/ \E i \in 1..Len(rows) : rows[i][1].nan \/ rows[i][2].nan
       \/ \E i \in 1..Len(rows) : ~m[rows[i]].ok
    THEN [ok |-> FALSE, preds |-> <<>>]
    ELSE [ok |-> TRUE, preds |-> [i \in 1..Len(rows) |-> m[rows[i]].v]]

\* ------------------------------------------------------------ the scoring
\* The k-th smallest element of s (1-based), as sorting s would place it.
Kth(s, k) ==
    CHOOSE v \in {s[i] : i \in 1..Len(s)} :
        /\ Cardinality({i \in 1..Len(s) : s[i] < v}) < k
        /\ k <= Cardinality({i \in 1..Len(s) : s[i] <= v})

\* Percentile with method "lower": the neighbour below the virtual index.
PercentileLower(preds, q) ==
    Rat(Kth(preds, (q * (Len(preds) - 1)) \div 100 + 1), 1)

\* Percentile with method "higher": the neighbour above the virtual index.
PercentileHigher(preds, q) ==
    LET n == Len(preds)
        pos == q * (n - 1)
        lo == pos \div 100
    IN Rat(Kth(preds, IF pos % 100 = 0 THEN lo + 1
                      ELSE IF lo + 2 <= n THEN lo + 2 ELSE n), 1)

\* Percentile interpolating in preds as given, without sorting it.
PercentileUnsorted(preds, q) ==
    LET n == Len(preds)
        pos == q * (n - 1)
        lo == pos \div 100
        frac == pos % 100
        a == preds[lo + 1]
        b == preds[IF lo + 2 <= n THEN lo + 2 ELSE n]
    IN IF a <= b THEN Rat(100 * a + frac * (b - a), 100)
       ELSE Rat(100 * a - frac * (a - b), 100)

\* np.percentile(preds, q), method "linear": the virtual index q/100 * (n-1)
\* into the sorted values, interpolated between its two neighbours.
Percentile(preds, q) ==
    LET n == Len(preds)
        pos == q * (n - 1)
        lo == pos \div 100
        frac == pos % 100
        a == Kth(preds, lo + 1)
        b == Kth(preds, IF lo + 2 <= n THEN lo + 2 ELSE n)
    IN Rat(100 * a + frac * (b - a), 100)

\* Penalize with preds > p85.
PenalizeStrict(v, p85) ==
    IF v * p85.den > p85.num THEN Rat(v * FactorNum, FactorDen) ELSE Rat(v, 1)

\* np.where(preds >= p85, preds * 1.6, preds), one element.
Penalize(v, p85) ==
    IF v * p85.den >= p85.num THEN Rat(v * FactorNum, FactorDen) ELSE Rat(v, 1)

Penalized(preds, p85) == [i \in 1..Len(preds) |-> Penalize(preds[i], p85)]

RECURSIVE RatSum(_)
RatSum(s) == IF s = <<>> THEN Rat(0, 1) ELSE RatAdd(s[1], RatSum(Tail(s)))

\* Mean truncated to a whole number, as int(np.mean(penalized)) would.
MeanTruncated(s) == LET t == RatSum(s) IN Rat(t.num \div (t.den * Len(s)), 1)

\* np.mean(penalized)
Mean(s) == LET t == RatSum(s) IN Rat(t.num, t.den * Len(s))

\* A score of the response: a finite float or float("inf").
Finite(q) == [inf |-> FALSE, num |-> q.num, den |-> q.den]
Inf == [inf |-> TRUE, num |-> 0, den |-> 1]

\* The body of the try block for one route, as far as it gets: np.array
\* raises ("array"), the shape check raises ("shape"), model.predict raises
\* ("predict"), or the score is computed ("done").
TryRoute(m, route) ==
    LET arr == NpArray(route)
        res == ModelPredict(m, arr.rows)
        p85 == Percentile(res.preds, PERCENTILE)
        penalized == Penalized(res.preds, p85)
        none == [stage |-> "array", arr |-> <<>>, preds |-> <<>>,
                 p85 |-> Rat(0, 1), penalized |-> <<>>, route_score |-> Inf]
    IN IF ~arr.ok THEN none
       ELSE IF ~ShapeOk(arr) THEN [none EXCEPT !.stage = "shape", !.arr = arr.rows]
       ELSE IF ~res.ok THEN [none EXCEPT !.stage = "predict", !.arr = arr.rows]
       ELSE [stage |-> "done", arr |-> arr.rows, preds |-> res.preds, p85 |-> p85,
             penalized |-> penalized, route_score |-> Finite(Mean(penalized))]

\* ------------------------------------------------------------- the inputs
P0 == <<Num(0), Num(1)>>
P1 == <<Num(1), Num(0)>>

RECURSIVE SeqsUpTo(_, _)
\* The sequences over S of length 1..n.
SeqsUpTo(S, n) ==
    IF n = 0 THEN {}
    ELSE LET shorter == SeqsUpTo(S, n - 1)
         IN {<<x>> : x \in S} \cup shorter \cup {Append(s, x) : s \in shorter, x \in S}

\* Routes of [lat, lon] pairs of numbers.
ValidRoutes == SeqsUpTo({P0, P1}, MaxLen)

\* Routes that are not lists of [lat, lon] pairs of numbers.
OddRoutes ==
    { <<>>,                                   \* an empty route
      << <<>> >>,                             \* one point without components
      << <<Num(0)>> >>,                       \* one component
      << <<Num(0), Num(1), Num(0)>> >>,       \* three components
      << P0, <<Num(0), Num(1), Num(0)>> >>,   \* ragged: 2 then 3 components
      << P0, <<Num(1)>> >>,                   \* ragged: 2 then 1 component
      << <<BadStr, Num(0)>> >>,               \* ["abc", 0]
      << P0, <<Num(1), BadStr>> >>,
      << <<NumStr(1), Num(0)>> >>,            \* ["1", 0]
      << P0, <<NumStr(1), Num(0)>> >>,
      << <<Bool(1), Num(0)>> >>,              \* [true, 0]
      << <<Null, Num(0)>> >>,                 \* [null, 0]
      << P0, <<Num(1), Null>> >> }

\* The JSON bodies.  kind: "nojson" (no JSON, or a falsy value), "nondict" (a
\* truthy value that is no object), "missing" (no "routes" key), "notlist"
\* ("routes" is no list), "list".
Body(kind, routes) == [kind |-> kind, routes |-> routes]

NoBatch == {Body(k, <<>>) : k \in {"nojson", "nondict", "missing", "notlist", "list"}}

SingleBodies == {Body("list", <<rt>>) : rt \in ValidRoutes \cup OddRoutes}

FewRoutes == { <<P0>>, <<P1>>, <<>> }

Batches == SeqsUpTo(FewRoutes, MaxBatch)

Reversed(b) == [i \in 1..Len(b) |-> b[Len(b) + 1 - i]]

\* The batches a second request is given beside the batch b: b with one route
\* replaced, b in the opposite order, b with one more route.
Variants(b) ==
    {[b EXCEPT ![k] = x] : k \in 1..Len(b), x \in FewRoutes}
        \cup {Reversed(b)}
        \cup {Append(b, x) : x \in IF Len(b) < MaxBatch THEN FewRoutes ELSE {}}

BodyPairs ==
    {<<b, n>> : b \in SingleBodies, n \in NoBatch}
        \cup UNION {{<<Body("list", a), Body("list", b)>> : b \in Variants(a)} : a \in Batches}

\* --------------------------------------------------------------- the state
VARIABLES
    model,    \* the fitted model, loaded once
    data,     \* data[r]: the JSON body of request r, as get_json returns it
    pc,       \* pc[r]: "recv", "loop" or "sent"
    idx,      \* idx[r]: the position of the for loop in routes
    scores,   \* scores[r]: the list scores
    loc,      \* loc[r]: the locals arr, preds, p85, penalized as last assigned
    calls,    \* calls[r]: the calls of model.predict: the route's position, the array
    status    \* status[r]: the HTTP status of the response, 0 before it

vars == <<model, data, pc, idx, scores, loc, calls, status>>

NoLocals == [arr |-> <<>>, preds |-> <<>>, p85 |-> Rat(0, 1), penalized |-> <<>>]

Init ==
    /\ model \in Models
    /\ data \in BodyPairs
    /\ pc = [r \in Reqs |-> "recv"]
    /\ idx = [r \in Reqs |-> 0]
    /\ scores = [r \in Reqs |-> <<>>]
    /\ loc = [r \in Reqs |-> NoLocals]
    /\ calls = [r \in Reqs |-> <<>>]
    /\ status = [r \in Reqs |-> 0]

\* The response leaves: the request is over.
Send(r, code) ==
    /\ pc' = [pc EXCEPT ![r] = "sent"]
    /\ status' = [status EXCEPT ![r] = code]

\* if not data: return jsonify({"error": "Invalid JSON"}), 400
RejectInvalidJSON(r) ==
    /\ pc[r] = "recv"
    /\ data[r].kind = "nojson"
    /\ Send(r, 400)
    /\ UNCHANGED <<model, data, idx, scores, loc, calls>>

\* data.get("routes") on a value that is no object raises AttributeError,
\* outside any try: the request ends with a server error.
RaiseNoGet(r) ==
    /\ pc[r] = "recv"
    /\ data[r].kind = "nondict"
    /\ Send(r, 500)
    /\ UNCHANGED <<model, data, idx, scores, loc, calls>>

\* if not routes or not isinstance(routes, list): return ..., 400
RejectMissingRoutes(r) ==
    /\ pc[r] = "recv"
    /\ \/ data[r].kind \in {"missing", "notlist"}
       \/ data[r].kind = "list" /\ data[r].routes = <<>>
    /\ Send(r, 400)
    /\ UNCHANGED <<model, data, idx, scores, loc, calls>>

\* scores = []; for route in routes:
BeginScoring(r) ==
    /\ pc[r] = "recv"
    /\ data[r].kind = "list"
    /\ data[r].routes # <<>>
    /\ pc' = [pc EXCEPT ![r] = "loop"]
    /\ idx' = [idx EXCEPT ![r] = 1]
    /\ scores' = [scores EXCEPT ![r] = <<>>]
    /\ UNCHANGED <<model, data, loc, calls, status>>

\* One iteration whose try block runs to its end: scores.append(route_score).
ScoreRoute(r) ==
    /\ pc[r] = "loop"
    /\ idx[r] <= Len(data[r].routes)
    /\ LET t == TryRoute(model, data[r].routes[idx[r]])
       IN /\ t.stage = "done"
          /\ scores' = [scores EXCEPT ![r] = Append(@, t.route_score)]
          /\ loc' = [loc EXCEPT ![r] = [arr |-> t.arr, preds |-> t.preds,
                                         p85 |-> t.p85, penalized |-> t.penalized]]
          /\ calls' = [calls EXCEPT ![r] = Append(@, [route |-> idx[r], arr |-> t.arr])]
    /\ idx' = [idx EXCEPT ![r] = @ + 1]
    /\ UNCHANGED <<model, data, pc, status>>

\* ScoreFallback with an except block that logs and appends nothing.
ScoreFallbackSkip(r) ==
    /\ pc[r] = "loop"
    /\ idx[r] <= Len(data[r].routes)
    /\ TryRoute(model, data[r].routes[idx[r]]).stage # "done"
    /\ idx' = [idx EXCEPT ![r] = @ + 1]
    /\ UNCHANGED <<model, data, pc, status, scores, loc, calls>>

\* ScoreFallback with an except block that appends route_score, the score
\* left by the last iteration that computed one.
ScoreFallbackStale(r) ==
    /\ pc[r] = "loop"
    /\ idx[r] <= Len(data[r].routes)
    /\ TryRoute(model, data[r].routes[idx[r]]).stage # "done"
    /\ scores' = [scores EXCEPT ![r] =
                    Append(@, IF \E i \in 1..Len(@) : ~@[i].inf
                              THEN @[CHOOSE i \in 1..Len(@) :
                                       ~@[i].inf /\ \A j \in (i + 1)..Len(@) : @[j].inf]
                              ELSE Inf)]
    /\ idx' = [idx EXCEPT ![r] = @ + 1]
    /\ UNCHANGED <<model, data, pc, status, loc, calls>>

\* ScoreFallback with "except ValueError": a failure of model.predict is
\* not caught and ends the request with a server error.
ScoreFallbackValueError(r) ==
    /\ pc[r] = "loop"
    /\ idx[r] <= Len(data[r].routes)
    /\ LET t == TryRoute(model, data[r].routes[idx[r]])
       IN /\ t.stage # "done"
          /\ IF t.stage = "predict"
             THEN /\ Send(r, 500)
                  /\ UNCHANGED <<idx, scores>>
             ELSE /\ scores' = [scores EXCEPT ![r] = Append(@, Inf)]
                  /\ idx' = [idx EXCEPT ![r] = @ + 1]
                  /\ UNCHANGED <<pc, status>>
    /\ UNCHANGED <<model, data, loc, calls>>

\* One iteration whose try block raises: except Exception appends
\* float("inf").  The locals assigned before the raise keep their new values,
\* the others the values of an earlier iteration.
ScoreFallback(r) ==
    /\ pc[r] = "loop"
    /\ idx[r] <= Len(data[r].routes)
    /\ LET t == TryRoute(model, data[r].routes[idx[r]])
       IN /\ t.stage # "done"
          /\ scores' = [scores EXCEPT ![r] = Append(@, Inf)]
          /\ loc' = [loc EXCEPT ![r].arr = IF t.stage = "array" THEN @ ELSE t.arr]
          /\ calls' = [calls EXCEPT ![r] = IF t.stage = "predict"
                                           THEN Append(@, [route |-> idx[r], arr |-> t.arr])
                                           ELSE @]
    /\ idx' = [idx EXCEPT ![r] = @ + 1]
    /\ UNCHANGED <<model, data, pc, status>>

\* return jsonify({"scores": scores})
Respond(r) ==
    /\ pc[r] = "loop"
    /\ idx[r] > Len(data[r].routes)
    /\ Send(r, 200)
    /\ UNCHANGED <<model, data, idx, scores, loc, calls>>

Next ==
    \E r \in Reqs :
        \/ RejectInvalidJSON(r)
        \/ RaiseNoGet(r)
        \/ RejectMissingRoutes(r)
        \/ BeginScoring(r)
        \/ ScoreRoute(r)
        \/ ScoreFallback(r)
        \/ Respond(r)

Spec == Init /\ [][Next]_vars

\* ================================================================ claims
\* What the claims speak of.
Routes(r) == data[r].routes
IsBatch(r) == data[r].kind = "list" /\ Routes(r) # <<>>
Scored(r) == 1..Len(scores[r])

\* The route is a list of [lat, lon] pairs that np.array and the shape check accept.
WellShaped(route) == NpArray(route).ok /\ ShapeOk(NpArray(route))
\* The predictions of the model for a well-shaped route.
PredsOf(route) == ModelPredict(model, NpArray(route).rows)
\* The route is malformed in one of the ways the specification lists: empty,
\* a point that has not 2 components (ragged included), a coordinate that is no number.
Malformed(route) ==
    \/ route = <<>>
    \/ \E i \in 1..Len(route) : Len(route[i]) # 2
    \/ \E i \in 1..Len(route) : \E j \in 1..Len(route[i]) : route[i][j].t # "num"

\* C1: a batch of N >= 1 routes is never rejected, every iteration so far has
\* appended exactly one score, the response carries N scores, and scores[i]
\* is the score of routes[i]: finite, the mean of its penalised predictions,
\* when its try block completes, and infinity otherwise.
C1_OneScorePerRouteInOrder ==
    \A r \in Reqs :
        IsBatch(r) =>
            /\ status[r] \in {0, 200}
            /\ pc[r] = "loop" => Len(scores[r]) = idx[r] - 1
            /\ pc[r] = "sent" => Len(scores[r]) = Len(Routes(r))
            /\ \A i \in Scored(r) :
                   scores[r][i] = TryRoute(model, Routes(r)[i]).route_score

C1_Witness ==
    \E r \in Reqs :
        /\ status[r] = 200
        /\ Len(scores[r]) >= 2
        /\ \E i, j \in Scored(r) : scores[r][i].inf /\ ~scores[r][j].inf

\* C2: a route that is empty, has a point of 3 components, holds a
\* coordinate that is no number, or is ragged is scored infinity, the model is
\* not called for it, and the request does not end with a server error.
C2_MalformedRouteIsInf ==
    \A r \in Reqs :
        IsBatch(r) =>
            /\ status[r] # 500
            /\ \A i \in Scored(r) :
                   Malformed(Routes(r)[i]) =>
                       /\ scores[r][i] = Inf
                       /\ \A c \in 1..Len(calls[r]) : calls[r][c].route # i

\* C9: a well-shaped route for which model.predict raises is scored infinity,
\* the request does not end with a server error, and the response still
\* carries one score per route.
C9_PredictFailureIsInf ==
    \A r \in Reqs :
        (IsBatch(r) /\ \E i \in 1..Len(Routes(r)) :
                           WellShaped(Routes(r)[i]) /\ ~PredsOf(Routes(r)[i]).ok) =>
            /\ status[r] \in {0, 200}
            /\ pc[r] = "sent" => Len(scores[r]) = Len(Routes(r))
            /\ \A i \in Scored(r) :
                   (WellShaped(Routes(r)[i]) /\ ~PredsOf(Routes(r)[i]).ok) =>
                       scores[r][i] = Inf

C9_Witness ==
    \E r \in Reqs :
        /\ status[r] = 200
        /\ \E i, j \in Scored(r) :
               /\ i < j
               /\ WellShaped(Routes(r)[i]) /\ ~PredsOf(Routes(r)[i]).ok
               /\ scores[r][i] = Inf
               /\ \E c \in 1..Len(calls[r]) : calls[r][c].route = i
               /\ ~scores[r][j].inf

\* C10: a body whose "routes" is the empty list is answered 200 with an
\* empty list of scores.
C10_EmptyBatchIsScored ==
    \A r \in Reqs :
        (data[r].kind = "list" /\ Routes(r) = <<>> /\ pc[r] = "sent") =>
            status[r] = 200 /\ scores[r] = <<>>

\* All predictions of the sequence are the value v.
Constant(preds, v) == preds # <<>> /\ \A k \in 1..Len(preds) : preds[k] = v

\* C3 as stated: when every prediction of a route is V, no value is
\* changed by the penalty and the score is V.
C3_ConstantScoreIsV ==
    \A r \in Reqs : \A v \in Intensities :
        /\ Constant(loc[r].preds, v) =>
               \A k \in 1..Len(loc[r].penalized) : loc[r].penalized[k] = Rat(v, 1)
        /\ \A i \in Scored(r) :
               (WellShaped(Routes(r)[i]) /\ Constant(PredsOf(Routes(r)[i]).preds, v)) =>
                   scores[r][i] = Finite(Rat(v, 1))

\* C3 amended: when every prediction of a route is V, the threshold is V,
\* every value is multiplied by 1.6 and the score is 1.6 * V.
C3_ConstantScoreIsAmplified ==
    \A r \in Reqs : \A v \in Intensities :
        /\ Constant(loc[r].preds, v) =>
               /\ loc[r].p85 = Rat(v, 1)
               /\ \A k \in 1..Len(loc[r].penalized) :
                      loc[r].penalized[k] = Rat(v * FactorNum, FactorDen)
        /\ \A i \in Scored(r) :
               (WellShaped(Routes(r)[i]) /\ Constant(PredsOf(Routes(r)[i]).preds, v)) =>
                   scores[r][i] = Finite(Rat(v * FactorNum, FactorDen))

C3_Witness ==
    \E r \in Reqs : \E i \in Scored(r) :
        /\ Len(Routes(r)[i]) >= 3
        /\ \E k \in 1..Len(Routes(r)[i]) : Routes(r)[i][k] # Routes(r)[i][1]
        /\ WellShaped(Routes(r)[i])
        /\ Constant(PredsOf(Routes(r)[i]).preds, 10)
        /\ Constant(loc[r].preds, 10)
        /\ scores[r][i] = Finite(Rat(16, 1))

\* C4: a well-shaped route of one point, predicted v, has the threshold v
\* and the score v * 1.6.
C4_OnePointScore ==
    \A r \in Reqs :
        /\ Len(loc[r].preds) = 1 =>
               /\ loc[r].p85 = Rat(loc[r].preds[1], 1)
               /\ loc[r].penalized = <<Rat(loc[r].preds[1] * FactorNum, FactorDen)>>
        /\ \A i \in Scored(r) :
               (Len(Routes(r)[i]) = 1 /\ WellShaped(Routes(r)[i])
                    /\ PredsOf(Routes(r)[i]).ok) =>
                   scores[r][i] =
                       Finite(Rat(PredsOf(Routes(r)[i]).preds[1] * FactorNum, FactorDen))

C4_Witness ==
    \E r \in Reqs : \E i \in Scored(r) :
        /\ Routes(r)[i] = <<P0>>
        /\ PredsOf(<<P0>>).ok /\ PredsOf(<<P0>>).preds = <<10>>
        /\ scores[r][i] = Finite(Rat(16, 1))

Preds5 == <<1, 1, 1, 1, 10>>

\* C5: when the model predicts [1,1,1,1,10] for a route, the penalised
\* vector is [1,1,1,1,16] and the score of the route is 4.
C5_ScenarioScore ==
    \A r \in Reqs :
        /\ loc[r].preds = Preds5 =>
               loc[r].penalized = <<Rat(1, 1), Rat(1, 1), Rat(1, 1), Rat(1, 1), Rat(16, 1)>>
        /\ \A i \in Scored(r) :
               (WellShaped(Routes(r)[i]) /\ PredsOf(Routes(r)[i]).ok
                    /\ PredsOf(Routes(r)[i]).preds = Preds5) =>
                   scores[r][i] = Finite(Rat(4, 1))

C5_Witness ==
    \E r \in Reqs :
        /\ loc[r].preds = Preds5
        /\ scores[r] = <<Finite(Rat(4, 1))>>
        /\ status[r] = 200

\* C6 as stated: the threshold computed for the predictions [1,1,1,1,10] is 7.
C6_ThresholdIsSeven ==
    \A r \in Reqs : loc[r].preds = Preds5 => loc[r].p85 = Rat(7, 1)

\* C6 amended: the threshold computed for the predictions [1,1,1,1,10] is
\* 4.6: the virtual index is 0.85 * 4 = 3.4, between the sorted values 1 and
\* 10, and 1 + 0.4 * (10 - 1) = 4.6.
C6_ThresholdIsFourPointSix ==
    \A r \in Reqs : loc[r].preds = Preds5 => loc[r].p85 = Rat(23, 5)

C6_Witness ==
    \E r \in Reqs : loc[r].preds = Preds5 /\ loc[r].p85 = Rat(23, 5) /\ Len(scores[r]) = 1

\* C7: a route has the same score wherever it stands and whatever stands
\* beside it: two scored positions, of one batch or of two, that hold the same
\* route hold the same score.
C7_ScoreDependsOnRouteOnly ==
    \A r1, r2 \in Reqs : \A i \in Scored(r1) : \A j \in Scored(r2) :
        Routes(r1)[i] = Routes(r2)[j] => scores[r1][i] = scores[r2][j]

C7_Witness ==
    \E i \in Scored(1) : \E j \in Scored(2) :
        /\ i # j
        /\ Routes(1)[i] = Routes(2)[j]
        /\ ~scores[1][i].inf
        /\ Len(Routes(1)) = Len(Routes(2))
        /\ \E k \in Scored(1) : scores[1][k].inf
        /\ \A k \in Scored(2) : ~scores[2][k].inf
        /\ status[1] = 200 /\ status[2] = 200

\* The route with its points k and k + 1 exchanged.
SwapAt(route, k) ==
    [i \in 1..Len(route) |->
        IF i = k THEN route[k + 1] ELSE IF i = k + 1 THEN route[k] ELSE route[i]]

====
